---------------------------- MODULE Spec2Model ----------------------------
(***************************************************************************)
(* A model of realsafe's Momentum Iterative Method attacker                *)
(* (src/realsafe/attacks/mim.py): the tensorflow variables the MIM object  *)
(* owns, config(), and batch_attack() with its loop of update_g_step and   *)
(* update_xs_adv_step.                                                     *)
(*                                                                         *)
(* Numbers.  A tensor element is an exact rational <<n, d>> in lowest      *)
(* terms with d > 0, or NaN == <<0, 0>>, the value 0/0 has in floating     *)
(* point.  Rounding is not modelled.  Euclidean norms are computed exactly:*)
(* the gradient oracle is restricted to the values for which every norm    *)
(* the l_2 step has to take is rational (ExactL2).                         *)
(*                                                                         *)
(* A row is a sequence of D numbers (one flattened example), a batch a     *)
(* sequence of BatchSize rows.                                             *)
(***************************************************************************)
EXTENDS Integers, Sequences, FiniteSets, TLC

\* ------------------------------------------------------------------------
\* Shapes and bounds
\* ------------------------------------------------------------------------
\* batch_size, the constructor's argument
BatchSize == 2
\* np.prod(model.x_shape), the flattened feature dimension
D == 3
\* largest iteration count a config call sets
MaxIter == 2

Examples == 1..BatchSize
Coords == 1..D

\* ------------------------------------------------------------------------
\* Exact rational arithmetic with NaN
\* ------------------------------------------------------------------------
NaN == <<0, 0>>

IsNaN(a) == a[2] = 0

Abs(n) == IF n < 0 THEN -n ELSE n

RECURSIVE GCD(_, _)
GCD(a, b) == IF b = 0 THEN a ELSE GCD(b, a % b)

\* the rational n/d in lowest terms; 0/0 (and x/0) is NaN
R(n, d) ==
    IF d = 0 THEN NaN
    ELSE LET g == GCD(Abs(n), Abs(d))
             s == IF d < 0 THEN -1 ELSE 1
         IN  <<(s * n) \div g, Abs(d) \div g>>

Zero == <<0, 1>>
One == <<1, 1>>

RAdd(a, b) == IF IsNaN(a) \/ IsNaN(b) THEN NaN
              ELSE R(a[1] * b[2] + b[1] * a[2], a[2] * b[2])
RNeg(a) == IF IsNaN(a) THEN NaN ELSE <<-a[1], a[2]>>
RSub(a, b) == RAdd(a, RNeg(b))
RMul(a, b) == IF IsNaN(a) \/ IsNaN(b) THEN NaN
              ELSE R(a[1] * b[1], a[2] * b[2])
\* a / b; the model divides by zero only in 0/0, which is NaN
RDiv(a, b) == IF IsNaN(a) \/ IsNaN(b) THEN NaN
              ELSE R(a[1] * b[2], a[2] * b[1])
RAbs(a) == <<Abs(a[1]), a[2]>>
\* comparisons; false as soon as one side is NaN, as in IEEE 754
RLe(a, b) == ~IsNaN(a) /\ ~IsNaN(b) /\ a[1] * b[2] <= b[1] * a[2]
RLt(a, b) == ~IsNaN(a) /\ ~IsNaN(b) /\ a[1] * b[2] < b[1] * a[2]

\* tf.sign: -1, 0 or 1, NaN for NaN
RSign(a) == IF IsNaN(a) THEN NaN
            ELSE IF a[1] > 0 THEN One
            ELSE IF a[1] < 0 THEN RNeg(One) ELSE Zero

\* tf.minimum / tf.maximum: NaN if either operand is NaN
RMin(a, b) == IF IsNaN(a) \/ IsNaN(b) THEN NaN ELSE IF RLe(a, b) THEN a ELSE b
RMax(a, b) == IF IsNaN(a) \/ IsNaN(b) THEN NaN ELSE IF RLe(a, b) THEN b ELSE a

\* the largest r in lo..hi with r * r <= n, by bisection
RECURSIVE SqrtIn(_, _, _)
SqrtIn(n, lo, hi) ==
    IF lo >= hi THEN lo
    ELSE LET mid == (lo + hi + 1) \div 2
         IN  IF mid * mid <= n THEN SqrtIn(n, mid, hi) ELSE SqrtIn(n, lo, mid - 1)

\* integer square root, exact on a perfect square
ISqrt(n) == SqrtIn(n, 0, n)
IsSquare(n) == ISqrt(n) * ISqrt(n) = n
\* a non-negative rational with a rational square root
HasSqrt(a) == IsNaN(a) \/ (a[1] >= 0 /\ IsSquare(a[1]) /\ IsSquare(a[2]))
RSqrt(a) == IF IsNaN(a) THEN NaN ELSE <<ISqrt(a[1]), ISqrt(a[2])>>

\* ------------------------------------------------------------------------
\* Rows and batches
\* ------------------------------------------------------------------------
RECURSIVE SumSeq(_)
SumSeq(s) == IF s = <<>> THEN Zero ELSE RAdd(s[1], SumSeq(Tail(s)))

\* the sequence <<Op(1), ..., Op(n)>>
RECURSIVE SeqOf(_, _)
SeqOf(Op(_), n) == IF n = 0 THEN <<>> ELSE Append(SeqOf(Op, n - 1), Op(n))

\* a row from its elements, a vector or a batch from its per-example parts
Row(Op(_)) == SeqOf(Op, D)
Batch(Op(_)) == SeqOf(Op, BatchSize)

\* a row of D equal numbers
ConstRow(v) == Row(LAMBDA j : v)
\* tf.zeros(shape=xs_flatten_shape), tf.zeros(shape=(batch_size,))
ZerosBatch == Batch(LAMBDA i : ConstRow(Zero))
ZerosVec == Batch(LAMBDA i : Zero)

RowHasNaN(row) == \E j \in Coords : IsNaN(row[j])
BatchHasNaN(b) == \E i \in Examples : RowHasNaN(b[i])


\* ------------------------------------------------------------------------
\* The model/loss collaborator and the caller's inputs
\* ------------------------------------------------------------------------
\* model.x_min, model.x_max
x_min == Zero
x_max == One

Half == R(1, 2)
Tenth == R(1, 10)

\* the rows batch_attack is called with lie inside [x_min, x_max]: at either
\* end of it or in its middle
InputRow(r) == ConstRow(IF r = 0 THEN Zero ELSE IF r = 1 THEN One ELSE Half)
\* batch s holds the rows s, s + 1, ... (batch 0 is <<0 0 0, 1 1 1>>)
InputBatches == {Batch(LAMBDA i : InputRow((i - 1 + s) % 3)) : s \in 0..1}

\* label batches (class ids): the true labels, the target labels
YsBatches == {Batch(LAMBDA i : 0)}
YsTargetBatches == {Batch(LAMBDA i : 1)}

\* what tf.gradients returns for one example: a unit vector along the first
\* coordinate, minus a unit vector along the last one, the zero vector, or
\* a vector with two non-zero coordinates
GradRow(r) ==
    Row(LAMBDA j :
        IF r = 0 THEN (IF j = 1 THEN One ELSE Zero)
        ELSE IF r = 1 THEN (IF j = D THEN RNeg(One) ELSE Zero)
        ELSE IF r = 2 THEN Zero
        ELSE (IF j = 1 THEN R(3, 1) ELSE IF j = 2 THEN R(4, 1) ELSE Zero))
\* batch s holds the rows s, s + 1, ... (batch 0 is <<1 0 0, 0 0 -1>>)
GradBatches == {Batch(LAMBDA i : GradRow((i - 1 + s) % 4)) : s \in 0..3}

\* values a config call passes
Scalar(v) == [scalar |-> v]
Array(a) == [array |-> a]
MagInputs == {Scalar(Tenth), Array(Batch(LAMBDA i : IF i = 1 THEN Half ELSE Tenth))}
AlphaInputs == {Scalar(Tenth)}
DecayInputs == {Half, One}
\* iteration counts: a negative one, zero, one and the largest
IterInputs == {-1, 0, 1, MaxIter}
Options == {"magnitude", "alpha", "decay_factor", "iteration"}

\* the attackers constructed: each goal and each distance metric, l_inf
\* with both signs of the gradient
Attackers == {<<"ut", "l_inf">>, <<"t", "l_inf">>, <<"tm", "l_2">>}

\* self.iteration is None until configured; a configured count n is <<n>>
None == <<>>
Some(n) == <<n>>

\* ------------------------------------------------------------------------
\* The graph built by MIM.__init__
\* ------------------------------------------------------------------------
\* realsafe.attacks.utils.maybe_to_array: a scalar is repeated batch_size
\* times, an array is taken as it is
maybe_to_array(x, n) ==
    IF "scalar" \in DOMAIN x THEN SeqOf(LAMBDA i : x.scalar, n) ELSE x.array

\* grad = tf.gradients(...)[0], negated for the targeted goals
goal_grad(gl, grad) ==
    IF gl = "t" \/ gl = "tm"
    THEN Batch(LAMBDA i : Row(LAMBDA j : RNeg(grad[i][j])))
    ELSE grad

\* grad_l1 = tf.reduce_sum(tf.abs(grad), axis=1)
grad_l1(grad) ==
    Batch(LAMBDA i : SumSeq(Row(LAMBDA j : RAbs(grad[i][j]))))

\* faulty variant: the momentum is not decayed
g_next_nodecay(decay, g, grad) ==
    LET l1 == grad_l1(grad)
    IN  Batch(LAMBDA i : Row(LAMBDA j :
            RAdd(g[i][j], RDiv(grad[i][j], l1[i]))))

\* g_next = decay_factor_var * g_var + grad / tf.expand_dims(grad_l1, 1)
g_next(decay, g, grad) ==
    LET l1 == grad_l1(grad)
    IN  Batch(LAMBDA i : Row(LAMBDA j :
            RAdd(RMul(decay, g[i][j]), RDiv(grad[i][j], l1[i]))))

\* squared and plain Euclidean norm of a row
Norm2Sq(row) == SumSeq(Row(LAMBDA j : RMul(row[j], row[j])))
Norm2(row) == RSqrt(Norm2Sq(row))

\* realsafe.attacks.utils.get_unit: each row divided by its Euclidean norm,
\* a zero row staying zero
get_unit(g) ==
    Batch(LAMBDA i :
        LET norm == Norm2(g[i])
        IN  IF norm = Zero THEN g[i]
            ELSE Row(LAMBDA j : RDiv(g[i][j], norm)))

\* tf.clip_by_value(t, lo, hi) on one element
clip_by_value(t, lo, hi) == RMax(RMin(t, hi), lo)

\* tf.clip_by_norm(t, clip_norm, axes=[1]) on one row: t unchanged when its
\* norm is at most clip_norm, and t * clip_norm / norm otherwise
clip_by_norm(row, clip_norm) ==
    IF RowHasNaN(row) THEN ConstRow(NaN)
    ELSE IF RLe(Zero, clip_norm) /\ RLe(Norm2Sq(row), RMul(clip_norm, clip_norm))
    THEN row
    ELSE LET norm == Norm2(row)
         IN  Row(LAMBDA j : RDiv(RMul(row[j], clip_norm), norm))

\* xs_adv_delta of the l_2 branch
l2_delta(xs, xs_adv, g, alpha) ==
    LET g_unit == get_unit(g)
    IN  Batch(LAMBDA i : Row(LAMBDA j :
            RAdd(RSub(xs_adv[i][j], xs[i][j]), RMul(alpha[i], g_unit[i][j]))))

\* faulty variant: the delta is not clipped by norm
l2_next_noclip(xs, xs_adv, g, eps, alpha) ==
    LET xs_adv_delta == l2_delta(xs, xs_adv, g, alpha)
    IN  Batch(LAMBDA i : Row(LAMBDA j : RAdd(xs[i][j], xs_adv_delta[i][j])))

\* xs_adv_next of the l_2 branch
l2_next(xs, xs_adv, g, eps, alpha) ==
    LET xs_adv_delta == l2_delta(xs, xs_adv, g, alpha)
    IN  Batch(LAMBDA i :
            LET c == clip_by_norm(xs_adv_delta[i], eps[i])
            IN  Row(LAMBDA j : RAdd(xs[i][j], c[j])))

\* xs_adv_next of the l_inf branch: the delta is clipped into
\* [xs_lo, xs_hi] = [xs - eps, xs + eps] and added to xs
linf_next(xs, xs_adv, g, eps, alpha) ==
    Batch(LAMBDA i : Row(LAMBDA j :
        LET xs_lo == RSub(xs[i][j], eps[i])
            xs_hi == RAdd(xs[i][j], eps[i])
            g_sign == RSign(g[i][j])
            xs_adv_delta == RAdd(RSub(xs_adv[i][j], xs[i][j]),
                                 RMul(alpha[i], g_sign))
        IN  RAdd(xs[i][j], clip_by_value(xs_adv_delta, xs_lo, xs_hi))))

\* xs_adv_next before the clip by (x_min, x_max)
xs_adv_proj(metric, xs, xs_adv, g, eps, alpha) ==
    IF metric = "l_2" THEN l2_next(xs, xs_adv, g, eps, alpha)
    ELSE linf_next(xs, xs_adv, g, eps, alpha)

\* faulty variant: no clip by (x_min, x_max)
xs_adv_next_noclamp(metric, xs, xs_adv, g, eps, alpha) ==
    xs_adv_proj(metric, xs, xs_adv, g, eps, alpha)

\* xs_adv_next = tf.clip_by_value(xs_adv_next, model.x_min, model.x_max)
xs_adv_next(metric, xs, xs_adv, g, eps, alpha) ==
    LET p == xs_adv_proj(metric, xs, xs_adv, g, eps, alpha)
    IN  Batch(LAMBDA i : Row(LAMBDA j : clip_by_value(p[i][j], x_min, x_max)))

\* The norms the l_2 step takes with momentum g are rational: the norm of
\* each row of g, and the norm of each row of the delta that has to be
\* scaled down.
ExactL2(xs, xs_adv, g, eps, alpha) ==
    /\ \A i \in Examples : HasSqrt(Norm2Sq(g[i]))
    /\ LET delta == l2_delta(xs, xs_adv, g, alpha)
       IN  \A i \in Examples :
              \/ RowHasNaN(delta[i])
              \/ RLe(Norm2Sq(delta[i]), RMul(eps[i], eps[i]))
              \/ HasSqrt(Norm2Sq(delta[i]))

\* ------------------------------------------------------------------------
\* State
\* ------------------------------------------------------------------------
VARIABLES
    goal,              \* self.goal: "t", "tm" or "ut"
    distance_metric,   \* self.distance_metric: "l_2" or "l_inf"
    xs_var,            \* the original examples
    ys_var,            \* the labels
    xs_adv_var,        \* the adversarial examples
    g_var,             \* the momentum term
    decay_factor_var,
    eps_var,           \* magnitude, one per example
    alpha_var,         \* step size, one per example
    iteration,         \* self.iteration: None or Some(n)
    pc,                \* where batch_attack is: "idle", "update_g",
                       \* "update_xs_adv" or "return"
    step,              \* iterations of the loop completed in this call
    grads,             \* the gradients tf.gradients returned in this call
    ret,               \* the last call's return value, None before it returns
    outcome,           \* how the last call ended: "none", "error", "returned"
    stale              \* history: when the call in progress began, the call
                       \* before it had left a momentum other than zero or a
                       \* candidate other than its inputs

vars == <<goal, distance_metric, xs_var, ys_var, xs_adv_var, g_var,
          decay_factor_var, eps_var, alpha_var, iteration, pc, step, grads,
          ret, outcome, stale>>

config_vars == <<decay_factor_var, eps_var, alpha_var, iteration>>
ctor_vars == <<goal, distance_metric>>

\* MIM.__init__: every tf.Variable starts as tf.zeros, self.iteration = None.
\* Another goal or distance metric raises NotImplementedError: no attacker.
Init ==
    /\ \E a \in Attackers : goal = a[1] /\ distance_metric = a[2]
    /\ xs_var = ZerosBatch
    /\ ys_var = Batch(LAMBDA i : 0)
    /\ xs_adv_var = ZerosBatch
    /\ g_var = ZerosBatch
    /\ decay_factor_var = Zero
    /\ eps_var = ZerosVec
    /\ alpha_var = ZerosVec
    /\ iteration = None
    /\ pc = "idle"
    /\ step = 0
    /\ grads = <<>>
    /\ ret = None
    /\ outcome = "none"
    /\ stale = FALSE

\* faulty variant: a call that does not pass magnitude resets it
ConfigWith_reset(keys, magnitude, alpha, decay_factor, it) ==
    /\ eps_var' = IF "magnitude" \in keys
                  THEN maybe_to_array(magnitude, BatchSize) ELSE ZerosVec
    /\ alpha_var' = IF "alpha" \in keys
                    THEN maybe_to_array(alpha, BatchSize) ELSE alpha_var
    /\ decay_factor_var' = IF "decay_factor" \in keys
                           THEN decay_factor ELSE decay_factor_var
    /\ iteration' = IF "iteration" \in keys THEN Some(it) ELSE iteration

\* config(**kwargs): each option present overwrites its stored value
ConfigWith(keys, magnitude, alpha, decay_factor, it) ==
    /\ eps_var' = IF "magnitude" \in keys
                  THEN maybe_to_array(magnitude, BatchSize) ELSE eps_var
    /\ alpha_var' = IF "alpha" \in keys
                    THEN maybe_to_array(alpha, BatchSize) ELSE alpha_var
    /\ decay_factor_var' = IF "decay_factor" \in keys
                           THEN decay_factor ELSE decay_factor_var
    /\ iteration' = IF "iteration" \in keys THEN Some(it) ELSE iteration

\* the values passed for option k: any of S when k is among the keywords,
\* and one that is never read when it is not
Passed(keys, k, S) == IF k \in keys THEN S ELSE {CHOOSE v \in S : TRUE}

Config ==
    /\ pc = "idle"
    /\ \E keys \in SUBSET Options :
          \E magnitude \in Passed(keys, "magnitude", MagInputs),
             alpha \in Passed(keys, "alpha", AlphaInputs),
             decay_factor \in Passed(keys, "decay_factor", DecayInputs),
             it \in Passed(keys, "iteration", IterInputs) :
             ConfigWith(keys, magnitude, alpha, decay_factor, it)
    /\ UNCHANGED <<ctor_vars, xs_var, ys_var, xs_adv_var, g_var, pc, step,
                   grads, ret, outcome, stale>>

\* lbs = ys if self.goal == 'ut' else ys_target
lbs(ys, ys_target) == IF goal = "ut" THEN ys ELSE ys_target

\* faulty variant: setup_g is not run
Setup_keep_g(xs, labels) ==
    /\ xs_var' = xs
    /\ xs_adv_var' = xs
    /\ ys_var' = labels
    /\ g_var' = g_var

\* setup_xs, setup_ys, setup_g
Setup(xs, labels) ==
    /\ xs_var' = xs
    /\ xs_adv_var' = xs
    /\ ys_var' = labels
    /\ g_var' = ZerosBatch

\* faulty variant: a missing count is taken for zero
LoopEntry_none_as_zero(it) ==
    IF it = None THEN "return"
    ELSE IF it[1] > 0 THEN "update_g" ELSE "return"

\* for _ in range(self.iteration), on entry: range(None) is a TypeError,
\* and the range of a count that is not positive is empty
LoopEntry(it) ==
    IF it = None THEN "error"
    ELSE IF it[1] > 0 THEN "update_g" ELSE "return"

\* faulty variant: one turn too many
LoopNext_one_more(k, it) == IF k <= it[1] THEN "update_g" ELSE "return"

\* for _ in range(self.iteration), after k turns
LoopNext(k, it) == IF k < it[1] THEN "update_g" ELSE "return"

\* batch_attack up to the head of its loop: the three setup runs, then
\* range(self.iteration)
BatchAttack ==
    /\ pc = "idle"
    /\ \E xs \in InputBatches, ys \in YsBatches, ys_target \in YsTargetBatches :
          /\ Setup(xs, lbs(ys, ys_target))
          /\ stale' = (LoopEntry(iteration) # "error"
                         /\ (g_var # ZerosBatch \/ xs_adv_var # xs_var))
    /\ step' = 0
    /\ grads' = <<>>
    /\ ret' = None
    /\ IF LoopEntry(iteration) = "error"
       THEN pc' = "idle" /\ outcome' = "error"
       ELSE pc' = LoopEntry(iteration) /\ outcome' = "none"
    /\ UNCHANGED <<ctor_vars, config_vars>>

\* self._session.run(self.update_g_step)
UpdateG ==
    /\ pc = "update_g"
    /\ \E grad \in GradBatches :
          LET g == g_next(decay_factor_var, g_var, goal_grad(goal, grad))
          IN  /\ distance_metric = "l_2" =>
                    ExactL2(xs_var, xs_adv_var, g, eps_var, alpha_var)
              /\ g_var' = g
              /\ grads' = Append(grads, grad)
    /\ pc' = "update_xs_adv"
    /\ UNCHANGED <<ctor_vars, config_vars, xs_var, ys_var, xs_adv_var, step,
                   ret, outcome, stale>>

\* self._session.run(self.update_xs_adv_step), and the loop's next turn
UpdateXsAdv ==
    /\ pc = "update_xs_adv"
    /\ xs_adv_var' = xs_adv_next(distance_metric, xs_var, xs_adv_var, g_var,
                                 eps_var, alpha_var)
    /\ step' = step + 1
    /\ pc' = LoopNext(step + 1, iteration)
    /\ UNCHANGED <<ctor_vars, config_vars, xs_var, ys_var, g_var, grads,
                   ret, outcome, stale>>

\* return self._session.run(self.xs_adv_model)
Return ==
    /\ pc = "return"
    /\ ret' = xs_adv_var
    /\ outcome' = "returned"
    /\ pc' = "idle"
    /\ step' = 0
    /\ grads' = <<>>
    /\ stale' = FALSE
    /\ UNCHANGED <<ctor_vars, config_vars, xs_var, ys_var, xs_adv_var, g_var>>

Next == Config \/ BatchAttack \/ UpdateG \/ UpdateXsAdv \/ Return

Spec == Init /\ [][Next]_vars

\* ------------------------------------------------------------------------
\* Notions the properties share
\* ------------------------------------------------------------------------
\* an iteration of the loop has just been completed in the call in progress
AfterIteration == pc \in {"update_g", "return"} /\ step >= 1

\* no gradient of example i had L1 norm zero in the call in progress
NonZeroGrads(i) ==
    \A k \in 1..Len(grads) : grad_l1(grads[k])[i] # Zero

InDomain(v) == RLe(x_min, v) /\ RLe(v, x_max)

\* row a minus row b
RowSub(a, b) == Row(LAMBDA j : RSub(a[j], b[j]))

\* the state k whole iterations after the setup of the call in progress:
\* the candidate x and the momentum g
RECURSIVE Replay(_)
Replay(k) ==
    IF k = 0 THEN [x |-> xs_var, g |-> ZerosBatch]
    ELSE LET p == Replay(k - 1)
             g == g_next(decay_factor_var, p.g, goal_grad(goal, grads[k]))
         IN  [x |-> xs_adv_next(distance_metric, xs_var, p.x, g, eps_var,
                                alpha_var),
              g |-> g]

\* ------------------------------------------------------------------------
\* C1  (l_inf budget) With the l_inf metric, inputs inside [x_min, x_max]
\* and magnitudes >= 0, after each iteration every coordinate of every
\* example has |Candidate - inputs| <= magnitude of that example.  Stated
\* for the examples into which no NaN has entered.
\* ------------------------------------------------------------------------
C1_LinfBudget ==
    (distance_metric = "l_inf" /\ AfterIteration) =>
        \A i \in Examples :
            (NonZeroGrads(i) /\ RLe(Zero, eps_var[i])
                /\ \A j \in Coords : InDomain(xs_var[i][j]))
            => \A j \in Coords :
                  RLe(RAbs(RSub(xs_adv_var[i][j], xs_var[i][j])), eps_var[i])

\* ------------------------------------------------------------------------
\* C2  (domain) For both metrics and every goal, after every iteration
\* every coordinate of the candidate lies in [x_min, x_max], for every
\* example whose gradients had a non-zero L1 norm.
\* ------------------------------------------------------------------------
C2_Domain ==
    AfterIteration =>
        \A i \in Examples :
            NonZeroGrads(i) => \A j \in Coords : InDomain(xs_adv_var[i][j])

\* an iteration has ended, for an example free of NaN, with a coordinate on
\* x_max although its step was positive and pointed upwards: the clip by
\* (x_min, x_max) cut it
C2_Witness ==
    /\ AfterIteration
    /\ \E i \in Examples :
          /\ NonZeroGrads(i)
          /\ RLt(Zero, alpha_var[i])
          /\ RLt(Zero, eps_var[i])
          /\ \E j \in Coords :
                /\ xs_adv_var[i][j] = x_max
                /\ xs_var[i][j] = x_max
                /\ RLt(Zero, g_var[i][j])

\* ------------------------------------------------------------------------
\* C3  (scenario) l_inf, untargeted, inputs <<0 0 0, 1 1 1>>, magnitude
\* 0.1, alpha 0.1, decay_factor 1.0, iteration 1 and the gradient
\* <<1 0 0, 0 0 -1>>: batch_attack ends with g = <<1 0 0, 0 0 -1>> and
\* returns <<0.1 0 0, 1 1 0.9>>.
\* ------------------------------------------------------------------------
ScenarioGrad == Batch(LAMBDA i : GradRow(i - 1))
ScenarioInputs == Batch(LAMBDA i : InputRow(i - 1))
ScenarioResult ==
    Batch(LAMBDA i : Row(LAMBDA j :
        IF i = 1 THEN (IF j = 1 THEN Tenth ELSE Zero)
        ELSE (IF j = D THEN R(9, 10) ELSE One)))

C3_Scenario ==
    ( /\ distance_metric = "l_inf"
      /\ goal = "ut"
      /\ pc = "return"
      /\ xs_var = ScenarioInputs
      /\ eps_var = Batch(LAMBDA i : Tenth)
      /\ alpha_var = Batch(LAMBDA i : Tenth)
      /\ decay_factor_var = One
      /\ iteration = Some(1)
      /\ grads = <<ScenarioGrad>> )
    => (g_var = ScenarioGrad /\ xs_adv_var = ScenarioResult)

\* ------------------------------------------------------------------------
\* C4  (l_2 budget) With the l_2 metric and inputs inside [x_min, x_max],
\* after each iteration the L2 norm of Candidate - inputs of an example is
\* at most its magnitude: the clip by norm establishes the bound, and the
\* clip by (x_min, x_max) that follows does not increase the distance to
\* the inputs.  Stated for the examples into which no NaN has entered.
\* ------------------------------------------------------------------------
\* the squared L2 distance of row i of batch b to the inputs
DistSq(b, i) == Norm2Sq(RowSub(b[i], xs_var[i]))
EpsSq(i) == RMul(eps_var[i], eps_var[i])
\* the candidate update_xs_adv_step is about to commit, before and after
\* the clip by (x_min, x_max)
PendingProj ==
    xs_adv_proj(distance_metric, xs_var, xs_adv_var, g_var, eps_var, alpha_var)
PendingNext ==
    xs_adv_next(distance_metric, xs_var, xs_adv_var, g_var, eps_var, alpha_var)

C5_FreshStart ==
    /\ (pc \in {"update_g", "return"} /\ step = 0) =>
          (xs_adv_var = xs_var /\ g_var = ZerosBatch)
    /\ pc = "return" => xs_adv_var = Replay(Len(grads)).x
    /\ (pc = "idle" /\ outcome = "error") =>
          (xs_adv_var = xs_var /\ g_var = ZerosBatch)

\* a call that began on what an earlier call had left is about to return
\* after at least one iteration
C5_Witness == pc = "return" /\ stale /\ step >= 1

\* ------------------------------------------------------------------------
\* C6  (config frame) A step that changes one of magnitude, alpha,
\* decay_factor, iteration is a config call: it happens between calls of
\* batch_attack, leaves the batch state and the value the last call
\* returned as they are, and gives each option it changes a value that was
\* passed, every other option keeping its value; no step of batch_attack
\* changes any of the four.
\* ------------------------------------------------------------------------
batch_vars == <<xs_var, ys_var, xs_adv_var, g_var, pc, step, grads, ret,
                outcome, stale>>

C7_PositiveOrError ==
    pc = "return" => (iteration # None /\ iteration[1] >= 1)

\* C7 as amended: with no iteration configured the call ends in an error
\* and returns nothing, no call ever getting to its return; with a stored
\* iteration that is zero or negative the call does no iteration and
\* returns the unmodified inputs.
C7_ErrorOnlyWhenMissing ==
    /\ iteration = None => (pc = "idle" /\ ret = None /\ outcome # "returned")
    /\ outcome = "error" => (pc = "idle" /\ ret = None)
    /\ (pc = "return" /\ iteration[1] <= 0) =>
          (step = 0 /\ grads = <<>> /\ xs_adv_var = xs_var)
    /\ (pc = "idle" /\ outcome = "returned") => ret = xs_adv_var

\* a call made with a count that is not positive is about to return, on top
\* of what an earlier call left
C7_Witness == pc = "return" /\ iteration[1] <= 0 /\ stale

\* ------------------------------------------------------------------------
\* C8  (zero-norm guard) No undefined value (NaN) ever enters g or
\* Candidate, a gradient of L1 norm zero contributing zero to the momentum.
\* ------------------------------------------------------------------------
C8_NoNaN == ~BatchHasNaN(g_var) /\ ~BatchHasNaN(xs_adv_var)

\* ------------------------------------------------------------------------
\* C9  (momentum recurrence) Within a call, after k momentum updates the
\* accumulator of an example is sum_{i=0}^{k-1} decay_factor^i * n_{k-i},
\* n_m being the goal-sign-adjusted, L1-normalised gradient of update m
\* (g0 = 0).  Stated for the examples whose gradients had a non-zero norm.
\* ------------------------------------------------------------------------
RECURSIVE RPow(_, _)
RPow(a, n) == IF n = 0 THEN One ELSE RMul(a, RPow(a, n - 1))

\* n_m, the batch of normalised gradients of update m
NormalisedGrad(m) ==
    LET grad == goal_grad(goal, grads[m])
        l1 == grad_l1(grad)
    IN  Batch(LAMBDA i : Row(LAMBDA j : RDiv(grad[i][j], l1[i])))

RECURSIVE MomentumSum(_, _)
\* sum_{i=from}^{k-1} decay_factor^i * n_{k-i}, a batch
MomentumSum(k, from) ==
    IF from >= k THEN ZerosBatch
    ELSE LET n == NormalisedGrad(k - from)
             w == RPow(decay_factor_var, from)
             rest == MomentumSum(k, from + 1)
         IN  Batch(LAMBDA i : Row(LAMBDA j :
                 RAdd(RMul(w, n[i][j]), rest[i][j])))

C9_MomentumRecurrence ==
    pc # "idle" =>
        LET sum == MomentumSum(Len(grads), 0)
        IN  \A i \in Examples : NonZeroGrads(i) => g_var[i] = sum[i]

\* two updates with decay_factor 1/2 and, for one example, two different
\* gradients of non-zero norm
C9_Witness ==
    /\ pc = "update_xs_adv"
    /\ Len(grads) >= 2
    /\ decay_factor_var = Half
    /\ \E i \in Examples : NonZeroGrads(i) /\ grads[1][i] # grads[2][i]

\* ------------------------------------------------------------------------
\* C10 (order of the steps) With iteration n >= 1, batch_attack does
\* exactly n iterations after the reset: iteration k takes one gradient, at
\* the candidate iteration k-1 committed, updates the momentum and then
\* the candidate with the momentum just updated, and the value returned is
\* the candidate iteration n committed.
\* ------------------------------------------------------------------------
C10_StepOrder ==
    /\ pc # "idle" =>
          LET done == Replay(step)
          IN  /\ iteration # None
              /\ xs_adv_var = done.x
              /\ pc = "update_g" =>
                    /\ Len(grads) = step
                    /\ step < iteration[1]
                    /\ g_var = done.g
              /\ pc = "update_xs_adv" =>
                    /\ Len(grads) = step + 1
                    /\ step < iteration[1]
                    /\ g_var = g_next(decay_factor_var, done.g,
                                      goal_grad(goal, grads[step + 1]))
              /\ (pc = "return" /\ iteration[1] >= 1) =>
                    /\ Len(grads) = step
                    /\ step = iteration[1]
                    /\ g_var = done.g
    /\ (pc = "idle" /\ outcome = "returned") => ret = xs_adv_var

\* the call is about to return after MaxIter iterations that moved the
\* candidate
C10_Witness ==
    /\ pc = "return"
    /\ iteration = Some(MaxIter)
    /\ step = MaxIter
    /\ xs_adv_var # xs_var
    /\ ~BatchHasNaN(xs_adv_var)

=============================================================================
